---- MODULE Spec2Model ----
(***************************************************************************)
(* A model of ufoLib's FileSystem class (Lib/ufoLib/filesystem.py): the    *)
(* path-based facade over a PyFilesystem object (self._fs) that is either  *)
(* a directory ("package") or a single-root ZIP archive ("zip").           *)
(*                                                                         *)
(* Paths are sequences of one-character strings, so that joining,          *)
(* splitting and slicing are modelled character by character.  The object  *)
(* held in self._fs is an external library; it is modelled as a tree store *)
(* (a function from the normalised native paths that exist to nodes)       *)
(* answering the calls the class makes through its _fs* methods.           *)
(***************************************************************************)
EXTENDS Integers, Sequences, FiniteSets, TLC

\* ------------------------------------------------------------------------
\* Bounds of the model
\* ------------------------------------------------------------------------

\* The number of effective file writes (each one advances the clock that
\* stamps modification times).
MaxClock == 1

\* The deepest native path (in components) a move may produce.
MaxDepth == 3

\* The longest directory chain built in the deep-listing specification is
\* maxDepth + ChainSlack.
ChainSlack == 2

\* ------------------------------------------------------------------------
\* Values
\* ------------------------------------------------------------------------

None == "None"

\* What a call returns: its kind k, and the value in the field of its type
\* (b a boolean, d bytes, l a list of paths, n a number, s a string).
NoneV == [k |-> "None", b |-> FALSE, d |-> <<>>, l |-> <<>>, n |-> 0, s |-> ""]

BoolV(x) == [NoneV EXCEPT !.k = "bool", !.b = x]

BytesV(x) == [NoneV EXCEPT !.k = "bytes", !.d = x]

ListV(x) == [NoneV EXCEPT !.k = "list", !.l = x]

TimeV(x) == [NoneV EXCEPT !.k = "time", !.n = x]

\* a stream opened for reading is the bytes it yields; one opened for
\* writing has yielded nothing
StreamV(x) == [NoneV EXCEPT !.k = "stream", !.d = x]

StrV(x) == [NoneV EXCEPT !.k = "str", !.s = x]

\* a property-list value
ValueV(x) == [NoneV EXCEPT !.k = "value", !.s = x]

\* self._root: None, or a name
NoRoot == [k |-> "None", v |-> <<>>]

RootName(x) == [k |-> "str", v |-> x]

SLASH == "/"

\* Byte sequences written by clients; <<>> is b"".
Bytes == { <<>>, <<1>>, <<2>> }

\* ------------------------------------------------------------------------
\* fs.path helpers, character by character
\* ------------------------------------------------------------------------

HasSlash(p) == \E i \in 1..Len(p) : p[i] = SLASH

\* the index of the last "/" at or before i (0: none), as str.rsplit finds it
RECURSIVE LastSlashFrom(_, _)
LastSlashFrom(p, i) ==
    IF i = 0 THEN 0
    ELSE IF p[i] = SLASH THEN i
    ELSE LastSlashFrom(p, i - 1)

LastSlash(p) == LastSlashFrom(p, Len(p))

StartsWith(p, q) == /\ Len(q) <= Len(p)
                    /\ SubSeq(p, 1, Len(q)) = q

EndsWith(p, q) == /\ Len(q) <= Len(p)
                  /\ SubSeq(p, Len(p) - Len(q) + 1, Len(p)) = q

\* the index of the first "/" of a path that has one
FirstSlash(p) == CHOOSE k \in 1..Len(p) : p[k] = SLASH /\ \A j \in 1..(k - 1) : p[j] # SLASH

\* a component before the components after it; an empty one is dropped
WithHead(head, rest) == IF head = <<>> THEN rest ELSE <<head>> \o rest

\* str.split("/") followed by dropping the empty components: the components
\* normpath keeps (the model's alphabet has no "." or ".." components).
RECURSIVE Components(_)
Components(p) ==
    IF p = <<>> THEN <<>>
    ELSE IF ~HasSlash(p) THEN <<p>>
    ELSE WithHead(SubSeq(p, 1, FirstSlash(p) - 1),
                  Components(SubSeq(p, FirstSlash(p) + 1, Len(p))))

\* "/".join(components)
RECURSIVE JoinComponents(_)
JoinComponents(cs) ==
    IF cs = <<>> THEN <<>>
    ELSE IF Len(cs) = 1 THEN cs[1]
    ELSE cs[1] \o <<SLASH>> \o JoinComponents(Tail(cs))

\* a path that normalisation leaves as it is: no leading, trailing or
\* repeated slash
IsNormal(p) ==
    \/ p = <<>>
    \/ /\ p[1] # SLASH
       /\ p[Len(p)] # SLASH
       /\ \A i \in 1..(Len(p) - 1) : p[i] = SLASH => p[i + 1] # SLASH

\* fs.path.normpath: "" and "/" are returned as they are; otherwise repeated
\* and trailing slashes go and a leading slash stays.
NormPath(p) ==
    IF p = <<>> \/ p = <<SLASH>> \/ IsNormal(p) THEN p
    ELSE (IF p[1] = SLASH THEN <<SLASH>> ELSE <<>>) \o JoinComponents(Components(p))

IsAbsolute(p) == p # <<>> /\ p[1] = SLASH

\* the parts of a join put together, before normalisation
JoinRaw(a, b) ==
    IF b = <<>> THEN a
    ELSE IF a = <<>> \/ IsAbsolute(b) THEN b
    ELSE a \o <<SLASH>> \o b

\* the normalised join n of parts of which one is absolute (abs) is absolute
WithLeadingSlash(abs, n) ==
    IF abs /\ (n = <<>> \/ n[1] # SLASH) THEN <<SLASH>> \o n ELSE n

\* fs.path.join(a, b): empty parts are skipped, a part that starts with "/"
\* discards the parts before it, and the result is normalised.
joinPath(a, b) ==
    WithLeadingSlash(IsAbsolute(a) \/ IsAbsolute(b), NormPath(JoinRaw(a, b)))

\* the text before and after the slash at index i
SplitAt(p, i) ==
    << (IF i = 1 THEN <<SLASH>> ELSE SubSeq(p, 1, i - 1)), SubSeq(p, i + 1, Len(p)) >>

\* fs.path.split(path): ("", path) without a slash, else the text before and
\* after the last slash, with "/" for an empty head.
splitPath(p) ==
    IF LastSlash(p) = 0 THEN << <<>>, p >> ELSE SplitAt(p, LastSlash(p))

\* fs.path.dirname(path)
directoryName(p) == splitPath(p)[1]

\* The key of a native path in the store: the backend resolves every path it
\* is given relative to its own root, normalised.
Key(np) == IF IsNormal(np) THEN np ELSE JoinComponents(Components(np))

\* the number of components of a key
Depth(k) == IF k = <<>> THEN 0 ELSE Cardinality({ i \in 1..Len(k) : k[i] = SLASH }) + 1

ParentKey(k) == IF LastSlash(k) = 0 THEN <<>> ELSE SubSeq(k, 1, LastSlash(k) - 1)

BaseName(k) == SubSeq(k, LastSlash(k) + 1, Len(k))

\* k is key a itself or lies in the subtree under a
Under(k, a) == k = a \/ a = <<>> \/ StartsWith(k, a \o <<SLASH>>)

\* ------------------------------------------------------------------------
\* State
\* ------------------------------------------------------------------------

VARIABLES
    pc,         \* "new" before FileSystem(...) runs, then "open" or "failed"
    diskKind,   \* what is at the UFO path: "absent", "package", "zip", "other"
    structure,  \* the structure the constructor settled on (None: neither)
    root,       \* self._root: None, or the archive's root name
    fsKind,     \* what self._fs holds: None, "OSFS", "ZipFS" or "str"
    store,      \* the tree behind self._fs: normalised native path -> node
    clock,      \* the time of the latest effective write
    prev,       \* the store as it was before the latest operation
    last,       \* the latest operation, its arguments and its outcome
    other       \* a second handle on a bundle of its own, set aside while
                \* this one is called (used when two handles are compared)

vars == << pc, diskKind, structure, root, fsKind, store, clock, prev, last, other >>

DirNode == [kind |-> "dir", data |-> <<>>, mtime |-> 0]

FileNode(d, t) == [kind |-> "file", data |-> d, mtime |-> t]

EmptyStore == << >>

\* ------------------------------------------------------------------------
\* The calls made on self._fs, over a store s; k is the key of the native
\* path the call is given
\* ------------------------------------------------------------------------

Ok(s, c, ret) == [store |-> s, clock |-> c, ret |-> ret, err |-> "ok"]

Fail(s, c, e) == [store |-> s, clock |-> c, ret |-> NoneV, err |-> e]

BackendExists(s, k) == k = <<>> \/ k \in DOMAIN s

BackendIsDir(s, k) == k = <<>> \/ (k \in DOMAIN s /\ s[k].kind = "dir")

BackendIsFile(s, k) == k \in DOMAIN s /\ s[k].kind = "file"

\* the keys of the entries directly inside directory key k
ChildKeys(s, k) ==
    { c \in DOMAIN s :
        IF k = <<>> THEN c # <<>> /\ LastSlash(c) = 0
        ELSE /\ Len(c) > Len(k) + 1
             /\ c[Len(k) + 1] = SLASH
             /\ LastSlash(c) = Len(k) + 1
             /\ SubSeq(c, 1, Len(k)) = k }

\* the proper ancestors of key k below the store's root
AncestorKeys(k) == { SubSeq(k, 1, i - 1) : i \in { j \in 1..Len(k) : k[j] = SLASH } }

\* every proper ancestor of k is an existing directory
ParentsAreDirs(s, k) == \A a \in AncestorKeys(k) : a \in DOMAIN s /\ s[a].kind = "dir"

\* no proper ancestor of k is a file
NoFileAbove(s, k) == \A a \in AncestorKeys(k) : a \in DOMAIN s => s[a].kind = "dir"

\* s with the missing ancestors of k added as directories
WithParents(s, k) ==
    [ x \in DOMAIN s \cup AncestorKeys(k) |-> IF x \in DOMAIN s THEN s[x] ELSE DirNode ]

\* s with x bound to node n
Put(s, x, n) == [ y \in DOMAIN s \cup {x} |-> IF y = x THEN n ELSE s[y] ]

\* s without the keys in gone
Without(s, gone) == [ y \in DOMAIN s \ gone |-> s[y] ]

\* the keys of the entry at key k and of all below it
Subtree(s, k) == { x \in DOMAIN s : Under(x, k) }

\* An archive names its entries by full path, so its directories are implied
\* by the entries below them: creating an entry creates its ancestors.  A
\* directory on disk needs the parent to be there.
CanCreate(s, k) ==
    IF fsKind = "ZipFS" THEN NoFileAbove(s, k) ELSE ParentsAreDirs(s, k)

Implied(s, k) == IF fsKind = "ZipFS" THEN WithParents(s, k) ELSE s

\* self._fs.open(np, "rb") followed by f.read(): the bytes of the file
BackendRead(s, c, k) ==
    IF BackendIsFile(s, k) THEN Ok(s, c, StreamV(s[k].data))
    ELSE Fail(s, c, "Backend")

\* self._fs.open(np, "wb"): the file is created or truncated and stamped
BackendOpenWrite(s, c, k) ==
    IF k = <<>> \/ BackendIsDir(s, k) \/ ~CanCreate(s, k) THEN Fail(s, c, "Backend")
    ELSE Ok(Put(Implied(s, k), k, FileNode(<<>>, c + 1)), c + 1, StreamV(<<>>))

\* f.write(data) and f.close() on a stream opened for writing at np
StreamWrite(s, c, k, data) == Ok(Put(s, k, FileNode(data, c)), c, NoneV)

\* self._fs.remove(np)
BackendRemove(s, c, k) ==
    IF BackendIsFile(s, k) THEN Ok(Without(s, {k}), c, NoneV)
    ELSE Fail(s, c, "Backend")

\* self._fs.makedir(np)
BackendMakeDir(s, c, k) ==
    IF fsKind = "ZipFS"
    THEN IF BackendIsFile(s, k) \/ ~CanCreate(s, k) THEN Fail(s, c, "Backend")
         ELSE Ok(Put(Implied(s, k), k, DirNode), c, NoneV)
    ELSE IF BackendExists(s, k) \/ ~CanCreate(s, k) THEN Fail(s, c, "Backend")
         ELSE Ok(Put(s, k, DirNode), c, NoneV)

\* self._fs.removedir(np, force=True): the directory and all below it
BackendRemoveDir(s, c, k) ==
    IF k = <<>> \/ ~BackendIsDir(s, k) THEN Fail(s, c, "Backend")
    ELSE Ok(Without(s, Subtree(s, k)), c, NoneV)

\* key x of the subtree at key a, under key b instead
Rebased(x, a, b) == b \o SubSeq(x, Len(a) + 1, Len(x))

\* s with the subtree at key a carried over to key b
Moved(s, a, b) ==
    [ y \in (DOMAIN s \ Subtree(s, a)) \cup { Rebased(x, a, b) : x \in Subtree(s, a) } |->
        IF y \in DOMAIN s /\ ~Under(y, a) THEN s[y]
        ELSE s[CHOOSE x \in Subtree(s, a) : Rebased(x, a, b) = y] ]

\* self._fs.move(np1, np2): a file, to a place that is free in a directory
BackendMove(s, c, a, b) ==
    IF /\ BackendIsFile(s, a)
       /\ b # <<>>
       /\ ~BackendExists(s, b)
       /\ ParentsAreDirs(s, b)
    THEN Ok(Moved(s, a, b), c, NoneV)
    ELSE Fail(s, c, "Backend")

\* self._fs.movedir(np1, np2): a directory with all below it, to a place that
\* is free in a directory outside the moved subtree
BackendMoveDir(s, c, a, b) ==
    IF /\ a # <<>>
       /\ BackendIsDir(s, a)
       /\ b # <<>>
       /\ ~BackendExists(s, b)
       /\ ~Under(b, a)
       /\ ParentsAreDirs(s, b)
    THEN Ok(Moved(s, a, b), c, NoneV)
    ELSE Fail(s, c, "Backend")

\* a set of names as a sequence, in the order the backend happens to give
RECURSIVE SetToSeq(_)
SetToSeq(S) ==
    IF S = {} THEN <<>>
    ELSE LET x == CHOOSE y \in S : TRUE IN <<x>> \o SetToSeq(S \ {x})

\* self._fs.listdir(np): the names of the entries of the directory
BackendListDir(s, c, k) ==
    IF BackendIsDir(s, k)
    THEN Ok(s, c, ListV(SetToSeq({ BaseName(x) : x \in ChildKeys(s, k) })))
    ELSE Fail(s, c, "Backend")

\* ------------------------------------------------------------------------
\* fs Calls: every call on self._fs goes through the root name
\* ------------------------------------------------------------------------

fsRootPath(path) == IF root.k = "None" THEN path ELSE joinPath(root.v, path)

\* the key in the store of a logical path
NativeKey(path) == Key(fsRootPath(path))

fsOpenRead(s, c, path) == BackendRead(s, c, NativeKey(path))

fsOpenWrite(s, c, path) == BackendOpenWrite(s, c, NativeKey(path))

fsRemove(s, c, path) == BackendRemove(s, c, NativeKey(path))

fsMakeDirectory(s, c, path) == BackendMakeDir(s, c, NativeKey(path))

fsRemoveDirectory(s, c, path) == BackendRemoveDir(s, c, NativeKey(path))

fsExists(s, path) == BackendExists(s, NativeKey(path))

fsIsDirectory(s, path) == BackendIsDir(s, NativeKey(path))

fsListDirectory(s, c, path) == BackendListDir(s, c, NativeKey(path))

fsGetFileModificationTime(s, path) == s[NativeKey(path)].mtime

\* ------------------------------------------------------------------------
\* Existence
\* ------------------------------------------------------------------------

exists(s, path) == fsExists(s, path)

isDirectory(s, path) == fsIsDirectory(s, path)

\* fsMove with the file primitive chosen whatever path1 is
fsMove_AlwaysFile(s, c, path1, path2) ==
    BackendMove(s, c, NativeKey(path1), NativeKey(path2))

fsMove(s, c, path1, path2) ==
    IF isDirectory(s, path1)
    THEN BackendMoveDir(s, c, NativeKey(path1), NativeKey(path2))
    ELSE BackendMove(s, c, NativeKey(path1), NativeKey(path2))

\* the default of _listDirectory's maxDepth parameter
maxDepth == 100

\* p[n:]
SliceFrom(p, n) == IF n >= Len(p) THEN <<>> ELSE SubSeq(p, n + 1, Len(p))

\* relativeTo after "if not relativeTo.endswith("/"): relativeTo += "/""
WithSlash(relativeTo) ==
    IF EndsWith(relativeTo, <<SLASH>>) THEN relativeTo ELSE relativeTo \o <<SLASH>>

\* One call of _listDirectory under way: its arguments, and the names its
\* for loop has still to visit.
Frame(path, names, relativeTo, depth) ==
    [path |-> path, names |-> names, relativeTo |-> relativeTo, depth |-> depth]

\* A listing under way: the calls of _listDirectory that have not returned,
\* the innermost last; the entries appended so far ("result += ..." hands
\* those of a call to its caller in the order they were appended); and the
\* error raised, which ends the listing.
Listing(frames, result, err) == [frames |-> frames, result |-> result, err |-> err]

\* the depth test with the limit reached one level early
TooDeep_OneEarly(depth) == depth >= maxDepth

\* "if depth > maxDepth"
TooDeep(depth) == depth > maxDepth

\* The start of a call _listDirectory(path, recurse, relativeTo, depth):
\* relativeTo gets its slash, the depth is tested, and the for loop starts
\* on the names the backend lists (names: the outcome of that call).
enterDirectory(run, names, path, relativeTo, depth) ==
    IF TooDeep(depth) THEN [run EXCEPT !.err = "RecursionLimit"]
    ELSE IF names.err # "ok" THEN [run EXCEPT !.err = names.err]
    ELSE [run EXCEPT !.frames =
              Append(@, Frame(path, names.ret.l, WithSlash(relativeTo), depth))]

\* the body of the for loop of call top, for p = joinPath(path, fileName)
visitName(s, c, run, top, p, recurse) ==
    IF isDirectory(s, p) /\ recurse
    THEN enterDirectory(run, fsListDirectory(s, c, p), p, top.relativeTo, top.depth + 1)
    ELSE [run EXCEPT !.result = Append(@, SliceFrom(p, Len(top.relativeTo)))]

\* the innermost call goes on to its next name, or returns after the last
stepCall(s, c, run, top, recurse) ==
    IF top.names = <<>>
    THEN [run EXCEPT !.frames = SubSeq(@, 1, Len(@) - 1)]
    ELSE visitName(s, c, [run EXCEPT !.frames[Len(run.frames)].names = Tail(@)],
                   top, joinPath(top.path, Head(top.names)), recurse)

\* a listing that has raised, or whose outermost call has returned
ended(run) == run.err # "ok" \/ run.frames = <<>>

\* one step of a listing under way: a step of its innermost call
listDirectoryStep(s, c, run, recurse) ==
    stepCall(s, c, run, run.frames[Len(run.frames)], recurse)

\* n steps of a listing, the first half before the second; a listing that
\* has ended stays as it is
RECURSIVE listDirectorySteps(_, _, _, _, _)
listDirectorySteps(s, c, run, recurse, n) ==
    IF n = 0 \/ ended(run) THEN run
    ELSE IF n = 1 THEN listDirectoryStep(s, c, run, recurse)
    ELSE listDirectorySteps(s, c, listDirectorySteps(s, c, run, recurse, n \div 2),
                            recurse, n - (n \div 2))

\* Steps enough for any listing over s: a call returns once, and visits
\* each name of its directory once.
StepsOver(s) == 2 * Cardinality(DOMAIN s) + 2

\* what the outermost call returns or raises
listed(s, c, run) ==
    IF run.err # "ok" THEN Fail(s, c, run.err) ELSE Ok(s, c, ListV(run.result))

\* listDirectory(path, recurse): _listDirectory(path, recurse, relativeTo=path),
\* with depth 0
listDirectory(s, c, path, recurse) ==
    listed(s, c, listDirectorySteps(s, c,
               enterDirectory(Listing(<<>>, <<>>, "ok"), fsListDirectory(s, c, path),
                              path, path, 0),
               recurse, StepsOver(s)))

\* makeDirectory without the test for a path that is there
makeDirectory_Always(s, c, path) == fsMakeDirectory(s, c, path)

makeDirectory(s, c, path) ==
    IF ~exists(s, path) THEN fsMakeDirectory(s, c, path) ELSE Ok(s, c, NoneV)

\* ------------------------------------------------------------------------
\* File Opener
\* ------------------------------------------------------------------------

\* the while loop of _buildDirectoryTree: the names of the directories above
\* the file, innermost first (the paths given are relative: on "/" the loop
\* of the source never ends)
RECURSIVE directoryTreeOf(_)
directoryTreeOf(directory) ==
    IF directory = <<>> THEN <<>>
    ELSE <<splitPath(directory)[2]>> \o directoryTreeOf(splitPath(directory)[1])

Reverse(q) == [ i \in 1..Len(q) |-> q[Len(q) + 1 - i] ]

\* the for loop of _buildDirectoryTree
RECURSIVE makeDirectories(_, _, _, _)
\* after makeDirectory(d) with outcome o: its error, or the directories left
madeDirectory(o, d, tree) ==
    IF o.err # "ok" THEN o ELSE makeDirectories(o.store, o.clock, d, tree)

makeDirectories(s, c, built, tree) ==
    IF tree = <<>> THEN Ok(s, c, NoneV)
    ELSE madeDirectory(makeDirectory(s, c, joinPath(built, Head(tree))),
                       joinPath(built, Head(tree)), Tail(tree))

buildDirectoryTree(s, c, path) ==
    makeDirectories(s, c, <<>>, Reverse(directoryTreeOf(splitPath(path)[1])))

ReadModes == {"r", "rb"}

WriteModes == {"w", "wb"}

\* the mode after "if encoding:"
EffectiveMode(mode, encoding) ==
    IF encoding /\ mode = "r" THEN "rb"
    ELSE IF encoding /\ mode = "w" THEN "wb"
    ELSE mode

\* "return self._fsOpen(path, mode)" after _buildDirectoryTree with outcome b
openBuilt(b, path) == IF b.err # "ok" THEN b ELSE fsOpenWrite(b.store, b.clock, path)

\* open without the early return for a missing file read
open_NoAbsentCheck(s, c, path, mode, encoding) ==
    IF exists(s, path) /\ isDirectory(s, path) THEN Fail(s, c, "IsDirectory")
    ELSE IF EffectiveMode(mode, encoding) \in WriteModes
         THEN openBuilt(buildDirectoryTree(s, c, path), path)
         ELSE fsOpenRead(s, c, path)

\* open without the directory check
open_NoDirectoryCheck(s, c, path, mode, encoding) ==
    IF EffectiveMode(mode, encoding) \in ReadModes /\ ~exists(s, path) THEN Ok(s, c, NoneV)
    ELSE IF EffectiveMode(mode, encoding) \in WriteModes
         THEN openBuilt(buildDirectoryTree(s, c, path), path)
         ELSE fsOpenRead(s, c, path)

\* open(path, mode, encoding): None, or the stream
open(s, c, path, mode, encoding) ==
    IF EffectiveMode(mode, encoding) \in ReadModes /\ ~exists(s, path) THEN Ok(s, c, NoneV)
    ELSE IF exists(s, path) /\ isDirectory(s, path) THEN Fail(s, c, "IsDirectory")
    ELSE IF EffectiveMode(mode, encoding) \in WriteModes
         THEN openBuilt(buildDirectoryTree(s, c, path), path)
         ELSE fsOpenRead(s, c, path)

\* ------------------------------------------------------------------------
\* Modification Times
\* ------------------------------------------------------------------------

getFileModificationTime(s, c, path) ==
    IF ~exists(s, path) THEN Ok(s, c, NoneV)
    ELSE Ok(s, c, TimeV(fsGetFileModificationTime(s, path)))

\* ------------------------------------------------------------------------
\* Raw Read/Write
\* ------------------------------------------------------------------------

\* "if f is None: return None", else f.read() and f.close(), for f the
\* outcome of open
readAndClose(s, c, f) ==
    IF f.err # "ok" THEN f
    ELSE IF f.ret.k = "None" THEN Ok(s, c, NoneV)
    ELSE Ok(s, c, BytesV(f.ret.d))

readBytesFromPath(s, c, path) == readAndClose(s, c, open(s, c, path, "rb", FALSE))

\* writeAndClose with the bytes left in a buffer that never reaches the file
writeAndClose_Unflushed(f, k, data) == f

\* f.write(data) and f.close(), for f the outcome of open(path, "wb")
writeAndClose(f, k, data) ==
    IF f.err # "ok" THEN f ELSE StreamWrite(f.store, f.clock, k, data)

\* writeIfData with the file opened for writing and closed unwritten
writeIfData_NothingWritten(s, c, data, path) ==
    IF data # <<>> THEN open(s, c, path, "wb", FALSE) ELSE Ok(s, c, NoneV)

\* writeIfData without the "if data:" test
writeIfData_Always(s, c, data, path) ==
    writeAndClose(open(s, c, path, "wb", FALSE), NativeKey(path), data)

\* the "if data:" part of _writeFileAtomically
writeIfData(s, c, data, path) ==
    IF data # <<>>
    THEN writeAndClose(open(s, c, path, "wb", FALSE), NativeKey(path), data)
    ELSE Ok(s, c, NoneV)

\* the comparison with the old bytes skipped
writeIfChanged_NoCompare(s, c, f, data, path) ==
    IF f.err # "ok" THEN f ELSE writeIfData(s, c, data, path)

\* writeIfChanged writing over a file whose bytes differ, empty data included
writeIfChanged_Truncating(s, c, f, data, path) ==
    IF f.err # "ok" THEN f
    ELSE IF data = f.ret.d THEN Ok(s, c, NoneV)
    ELSE writeAndClose(open(s, c, path, "wb", FALSE), NativeKey(path), data)

\* "if data == oldData: return", for f the outcome of open(path, "rb")
writeIfChanged(s, c, f, data, path) ==
    IF f.err # "ok" THEN f
    ELSE IF data = f.ret.d THEN Ok(s, c, NoneV)
    ELSE writeIfData(s, c, data, path)

writeFileAtomically(s, c, data, path) ==
    IF exists(s, path)
    THEN writeIfChanged(s, c, open(s, c, path, "rb", FALSE), data, path)
    ELSE writeIfData(s, c, data, path)

writeBytesToPath(s, c, path, data) == writeFileAtomically(s, c, data, path)

\* ------------------------------------------------------------------------
\* File Removal
\* ------------------------------------------------------------------------

RECURSIVE removeEmptyDirectoriesForPath(_, _, _)
\* "directory = self.directoryName(...); if directory: ..." after a removal
\* with outcome r at path
removeAbove(r, path) ==
    IF r.err # "ok" THEN r
    ELSE IF directoryName(path) # <<>>
    THEN removeEmptyDirectoriesForPath(r.store, r.clock, directoryName(path))
    ELSE r

\* removeIfEmpty that stops after the first directory
removeIfEmpty_OneLevel(s, c, names, directory) ==
    IF names.err # "ok" THEN names
    ELSE IF Len(names.ret.l) # 0 THEN Ok(s, c, NoneV)
    ELSE fsRemoveDirectory(s, c, directory)

\* "if not len(self._fsListDirectory(directory)): ...", for names the outcome
\* of the listing
removeIfEmpty(s, c, names, directory) ==
    IF names.err # "ok" THEN names
    ELSE IF Len(names.ret.l) # 0 THEN Ok(s, c, NoneV)
    ELSE removeAbove(fsRemoveDirectory(s, c, directory), directory)

removeEmptyDirectoriesForPath(s, c, directory) ==
    IF ~exists(s, directory) THEN Ok(s, c, NoneV)
    ELSE removeIfEmpty(s, c, fsListDirectory(s, c, directory), directory)

\* removeFileForPath without the walk up through the directories above
removeFileForPath_NoWalk(s, c, path, raiseErrorIfMissing) ==
    IF ~exists(s, path)
    THEN IF raiseErrorIfMissing THEN Fail(s, c, "DoesNotExist") ELSE Ok(s, c, NoneV)
    ELSE IF isDirectory(s, path) THEN fsRemoveDirectory(s, c, path)
    ELSE fsRemove(s, c, path)

removeFileForPath(s, c, path, raiseErrorIfMissing) ==
    removeAbove(IF ~exists(s, path)
                THEN IF raiseErrorIfMissing THEN Fail(s, c, "DoesNotExist")
                     ELSE Ok(s, c, NoneV)
                ELSE IF isDirectory(s, path) THEN fsRemoveDirectory(s, c, path)
                     ELSE fsRemove(s, c, path),
                path)

remove(s, c, path) ==
    IF ~exists(s, path) THEN Ok(s, c, NoneV)
    ELSE removeFileForPath(s, c, path, TRUE)

\* ------------------------------------------------------------------------
\* Move
\* ------------------------------------------------------------------------

move(s, c, path1, path2) ==
    IF ~exists(s, path1) THEN Fail(s, c, "DoesNotExist")
    ELSE IF exists(s, path2) THEN Fail(s, c, "AlreadyExists")
    ELSE fsMove(s, c, path1, path2)

\* ------------------------------------------------------------------------
\* Property Lists
\* ------------------------------------------------------------------------

\* the values clients hold: two property lists, and one object the encoder
\* refuses
Values == {"v1", "v2", "unencodable"}

\* ufoLib.plistlib.readPlist on a stream yielding d: the value, or None for
\* bytes it raises on (an encoded property list is never empty)
plistlib_readPlist(d) ==
    IF d = <<1>> THEN "v1" ELSE IF d = <<2>> THEN "v2" ELSE None

\* ufoLib.plistlib.writePlist into a buffer: the bytes, or None for an
\* object it raises on
plistlib_writePlist(obj) ==
    IF obj = "v1" THEN <<1>> ELSE IF obj = "v2" THEN <<2>> ELSE None

\* readDecoded with the errors of open and of the decoder let through
readDecoded_Propagates(s, c, f) ==
    IF f.err # "ok" THEN f
    ELSE IF f.ret.k = "None" THEN Fail(s, c, "AttributeError")
    ELSE IF plistlib_readPlist(f.ret.d) = None THEN Fail(s, c, "DecodeError")
    ELSE Ok(s, c, ValueV(plistlib_readPlist(f.ret.d)))

\* "with self.open(path, "rb") as f: return readPlist(f)" under the blind
\* except, for f the outcome of open
readDecoded(s, c, f) ==
    IF f.err # "ok" THEN Fail(f.store, f.clock, "CouldNotBeRead")
    ELSE IF f.ret.k = "None" THEN Fail(s, c, "CouldNotBeRead")
    ELSE IF plistlib_readPlist(f.ret.d) = None THEN Fail(s, c, "CouldNotBeRead")
    ELSE Ok(s, c, ValueV(plistlib_readPlist(f.ret.d)))

readPlist(s, c, path, default) ==
    IF ~exists(s, path)
    THEN IF default # None THEN Ok(s, c, ValueV(default))
         ELSE Fail(s, c, "MissingRequiredFile")
    ELSE readDecoded(s, c, open(s, c, path, "rb", FALSE))

\* writePlist encoding into the file at path, opened before the encoder runs
writePlist_IntoFile(s, c, path, obj) ==
    IF plistlib_writePlist(obj) = None
    THEN [open(s, c, path, "wb", FALSE) EXCEPT !.ret = NoneV, !.err = "NotProperlyFormatted"]
    ELSE writeBytesToPath(s, c, path, plistlib_writePlist(obj))

writePlist(s, c, path, obj) ==
    IF plistlib_writePlist(obj) = None THEN Fail(s, c, "NotProperlyFormatted")
    ELSE writeBytesToPath(s, c, path, plistlib_writePlist(obj))

\* ------------------------------------------------------------------------
\* Construction
\* ------------------------------------------------------------------------

\* the root name given to an archive without entries
Contents == <<"c", "o", "n", "t", "e", "n", "t", "s">>

\* sniffFileStructure(path): "zip", "package", or None where it raises
sniffFileStructure(dk) ==
    IF dk = "zip" THEN "zip"
    ELSE IF dk = "package" THEN "package"
    ELSE None

Built(e, st, r, fk, dk, s) ==
    [err |-> e, structure |-> st, root |-> r, fsKind |-> fk, diskKind |-> dk, store |-> s]

\* BuildBackend taking the first entry as the root whatever their number
BuildBackend_FirstRoot(mode, st, dk, s) ==
    IF st = "package"
    THEN Built("ok", st, NoRoot, "OSFS", (IF mode = "w" /\ dk = "absent" THEN "package" ELSE dk), s)
    ELSE IF st = "zip"
    THEN LET roots == BackendListDir(s, 0, <<>>).ret.l IN
         IF Len(roots) = 0 THEN Built("ok", st, RootName(Contents), "ZipFS", "zip", s)
         ELSE Built("ok", st, RootName(roots[1]), "ZipFS", "zip", s)
    ELSE Built("ok", st, NoRoot, "str", dk, s)

\* the part of __init__ from "if structure == ..." on, with the structure
\* settled; self._fs stays the path string when it is neither
BuildBackend(mode, st, dk, s) ==
    IF st = "package"
    THEN Built("ok", st, NoRoot, "OSFS", (IF mode = "w" /\ dk = "absent" THEN "package" ELSE dk), s)
    ELSE IF st = "zip"
    THEN LET roots == BackendListDir(s, 0, <<>>).ret.l IN
         IF Len(roots) = 0 THEN Built("ok", st, RootName(Contents), "ZipFS", "zip", s)
         ELSE IF Len(roots) > 1 THEN Built("MultipleRoots", st, NoRoot, None, "zip", s)
         ELSE Built("ok", st, RootName(roots[1]), "ZipFS", "zip", s)
    ELSE Built("ok", st, NoRoot, "str", dk, s)

\* FileSystemInit taking the requested structure without comparing it with
\* the one on disk
FileSystemInit_NoCompare(mode, requested, dk, s) ==
    IF mode = "w"
    THEN IF dk # "absent"
         THEN IF sniffFileStructure(dk) = None
              THEN Built("UnknownStructure", requested, NoRoot, None, dk, s)
              ELSE IF requested # None
                   THEN BuildBackend(mode, requested, dk, s)
                   ELSE BuildBackend(mode, sniffFileStructure(dk), dk, s)
         ELSE BuildBackend(mode, requested, dk, s)
    ELSE IF dk = "absent"
         THEN Built("DoesNotExist", requested, NoRoot, None, dk, s)
         ELSE IF sniffFileStructure(dk) = None
              THEN Built("UnknownStructure", requested, NoRoot, None, dk, s)
              ELSE BuildBackend(mode, sniffFileStructure(dk), dk, s)

\* FileSystem.__init__(path, mode, structure) for a path string
FileSystemInit(mode, requested, dk, s) ==
    IF mode = "w"
    THEN IF dk # "absent"
         THEN IF sniffFileStructure(dk) = None
              THEN Built("UnknownStructure", requested, NoRoot, None, dk, s)
              ELSE IF requested # None
                   THEN IF requested # sniffFileStructure(dk)
                        THEN Built("DifferentStructure", requested, NoRoot, None, dk, s)
                        ELSE BuildBackend(mode, requested, dk, s)
                   ELSE BuildBackend(mode, sniffFileStructure(dk), dk, s)
         ELSE BuildBackend(mode, requested, dk, s)
    ELSE IF dk = "absent"
         THEN Built("DoesNotExist", requested, NoRoot, None, dk, s)
         ELSE IF sniffFileStructure(dk) = None
              THEN Built("UnknownStructure", requested, NoRoot, None, dk, s)
              ELSE BuildBackend(mode, sniffFileStructure(dk), dk, s)

\* ------------------------------------------------------------------------
\* What is at the UFO path before construction
\* ------------------------------------------------------------------------

P == <<"p">>
PA == <<"p", "/", "a">>
PB == <<"p", "/", "b">>
PBC == <<"p", "/", "b", "/", "c">>
Q == <<"q">>
R == <<"r">>

\* p/a and p/b/c
Tree1 ==
    (P :> DirNode) @@ (PA :> FileNode(<<1>>, 0)) @@ (PB :> DirNode)
        @@ (PBC :> FileNode(<<2>>, 0))

\* an empty file q beside p/a
Tree2 ==
    (Q :> FileNode(<<>>, 0)) @@ (P :> DirNode) @@ (PA :> FileNode(<<1>>, 0))

\* the tree inside an archive, under the single top-level entry r
Rooted(tree, r) ==
    [ k \in {r} \cup { r \o <<SLASH>> \o x : x \in DOMAIN tree } |->
        IF k = r THEN DirNode ELSE tree[SubSeq(k, Len(r) + 2, Len(k))] ]

Disks == {
    [kind |-> "absent",  store |-> EmptyStore],
    [kind |-> "other",   store |-> EmptyStore],
    [kind |-> "package", store |-> EmptyStore],
    [kind |-> "package", store |-> Tree1],
    [kind |-> "package", store |-> Tree2],
    [kind |-> "zip",     store |-> EmptyStore],
    [kind |-> "zip",     store |-> Rooted(Tree1, R)],
    [kind |-> "zip",     store |-> Rooted(Tree1, R) @@ (Q :> DirNode)] }

\* ------------------------------------------------------------------------
\* Inputs
\* ------------------------------------------------------------------------

\* the logical paths clients pass
Paths == { P, PA, PB, PBC, Q }

\* the places clients move to: free or taken, in a directory that is there
\* or missing, outside or inside what is moved
MoveTargets == { Q, PB }

\* open()'s mode and encoding arguments
OpenArgs == { <<"r", FALSE>>, <<"rb", FALSE>>, <<"w", FALSE>>, <<"wb", FALSE>>,
              <<"r", TRUE>>, <<"w", TRUE>> }

\* the paths clients list: also the bundle root and a trailing slash
ListPaths == Paths \cup { <<>>, <<"p", "/">> }

Modes == {"r", "w"}

Structures == {None, "package", "zip"}

NoArg == <<>>

Call(op, path, path2, data, mode, flag, o) ==
    [op |-> op, path |-> path, path2 |-> path2, data |-> data, mode |-> mode,
     flag |-> flag, value |-> None, ret |-> o.ret, err |-> o.err]

\* ------------------------------------------------------------------------
\* Actions
\* ------------------------------------------------------------------------

\* no call has been made, or the client has taken the latest call's result
NoCall == [op |-> "none", path |-> NoArg, path2 |-> NoArg, data |-> NoArg,
           mode |-> None, flag |-> FALSE, value |-> None, ret |-> NoneV, err |-> "ok"]

\* a handle set aside: its fields, and its latest call
Handle(r, fk, st, s, c, l) ==
    [root |-> r, fsKind |-> fk, structure |-> st, store |-> s, clock |-> c, last |-> l]

\* no second handle
NoOther == Handle(NoRoot, None, None, EmptyStore, 0, NoCall)

Init ==
    /\ pc = "new"
    /\ \E d \in Disks : diskKind = d.kind /\ store = d.store /\ prev = d.store
    /\ structure = None
    /\ root = NoRoot
    /\ fsKind = None
    /\ clock = 0
    /\ last = NoCall
    /\ other = NoOther

\* the handle after __init__ with outcome b
Constructed(mode, requested, b) ==
    /\ pc' = IF b.err = "ok" THEN "open" ELSE "failed"
    /\ diskKind' = b.diskKind
    /\ structure' = b.structure
    /\ root' = b.root
    /\ fsKind' = b.fsKind
    /\ store' = b.store
    /\ prev' = store
    /\ last' = [op |-> "init", path |-> NoArg, path2 |-> NoArg, data |-> NoArg,
                mode |-> mode, flag |-> FALSE, value |-> None, ret |-> StrV(requested),
                err |-> b.err]
    /\ UNCHANGED << clock, other >>

Construct ==
    /\ pc = "new"
    /\ \E mode \in Modes, requested \in Structures :
        Constructed(mode, requested, FileSystemInit(mode, requested, diskKind, store))

\* A handle whose self._fs is one of the two backends, with no call under
\* way: calls on one handle are made one after the other (the class is
\* synchronous), each by a client that has taken the result of the one before
\* (from both handles, where two are compared).
Ready ==
    /\ pc = "open"
    /\ fsKind \in {"OSFS", "ZipFS"}
    /\ last.op = "none"
    /\ other.last.op = "none"

\* the client takes the result of the call that has completed
Return ==
    /\ pc = "open"
    /\ last.op # "none"
    /\ last' = NoCall
    /\ prev' = store
    /\ UNCHANGED << pc, diskKind, structure, root, fsKind, store, clock, other >>

\* the effect of a call with outcome o; a call that raises leaves the store
\* as the calls made before the error left it
Effect(op, path, path2, data, mode, flag, o) ==
    /\ o.clock <= MaxClock
    /\ store' = o.store
    /\ clock' = o.clock
    /\ prev' = store
    /\ last' = Call(op, path, path2, data, mode, flag, o)
    /\ UNCHANGED << pc, diskKind, structure, root, fsKind, other >>

Exists ==
    /\ Ready
    /\ \E path \in Paths :
        Effect("exists", path, NoArg, NoArg, None, FALSE, Ok(store, clock, BoolV(exists(store, path))))

IsDirectory ==
    /\ Ready
    /\ \E path \in Paths :
        Effect("isDirectory", path, NoArg, NoArg, None, FALSE,
               Ok(store, clock, BoolV(isDirectory(store, path))))

ListDirectory ==
    /\ Ready
    /\ \E path \in ListPaths, recurse \in BOOLEAN :
        Effect("listDirectory", path, NoArg, NoArg, None, recurse,
               listDirectory(store, clock, path, recurse))

Open ==
    /\ Ready
    /\ \E path \in Paths, a \in OpenArgs :
        Effect("open", path, NoArg, NoArg, a[1], a[2],
               open(store, clock, path, a[1], a[2]))

GetFileModificationTime ==
    /\ Ready
    /\ \E path \in Paths :
        Effect("getFileModificationTime", path, NoArg, NoArg, None, FALSE,
               getFileModificationTime(store, clock, path))

ReadBytesFromPath ==
    /\ Ready
    /\ \E path \in Paths :
        Effect("readBytesFromPath", path, NoArg, NoArg, None, FALSE,
               readBytesFromPath(store, clock, path))

WriteBytesToPath ==
    /\ Ready
    /\ \E path \in Paths, data \in Bytes :
        Effect("writeBytesToPath", path, NoArg, data, None, FALSE,
               writeBytesToPath(store, clock, path, data))

Remove ==
    /\ Ready
    /\ \E path \in Paths :
        Effect("remove", path, NoArg, NoArg, None, FALSE, remove(store, clock, path))

\* the effect of a property-list call with outcome o; value is the default or
\* the object passed
PlistEffect(op, path, value, o) ==
    /\ o.clock <= MaxClock
    /\ store' = o.store
    /\ clock' = o.clock
    /\ prev' = store
    /\ last' = [Call(op, path, NoArg, NoArg, None, FALSE, o) EXCEPT !.value = value]
    /\ UNCHANGED << pc, diskKind, structure, root, fsKind, other >>

\* the defaults clients pass: none, or a value
Defaults == {None, "v1"}

ReadPlist ==
    /\ Ready
    /\ \E path \in Paths, default \in Defaults :
        PlistEffect("readPlist", path, default, readPlist(store, clock, path, default))

WritePlist ==
    /\ Ready
    /\ \E path \in Paths, obj \in Values :
        PlistEffect("writePlist", path, obj, writePlist(store, clock, path, obj))

\* the deepest entry of a store, below the root name
Deepest(s) == IF DOMAIN s = {} THEN 0
              ELSE CHOOSE n \in 0..(MaxDepth + 8) :
                      /\ \E k \in DOMAIN s : Depth(k) = n
                      /\ \A k \in DOMAIN s : Depth(k) <= n

\* the outcome's store is no deeper than the bound
Bounded(o) == Deepest(o.store) <= MaxDepth + (IF root.k = "None" THEN 0 ELSE 1)

Move ==
    /\ Ready
    /\ \E path1 \in Paths, path2 \in MoveTargets :
        /\ Bounded(move(store, clock, path1, path2))
        /\ Effect("move", path1, path2, NoArg, None, FALSE,
                  move(store, clock, path1, path2))

Next ==
    \/ Construct
    \/ Exists
    \/ IsDirectory
    \/ ListDirectory
    \/ Open
    \/ GetFileModificationTime
    \/ ReadBytesFromPath
    \/ WriteBytesToPath
    \/ Remove
    \/ Move
    \/ ReadPlist
    \/ WritePlist
    \/ Return

Spec == Init /\ [][Next]_vars

\* ------------------------------------------------------------------------
\* Deep listing: a package holding a chain of directories p/d/d/...
\* ------------------------------------------------------------------------

D == <<"d">>

\* the directories below p
ChainLength(s) == Cardinality(DOMAIN s) - 1

\* the innermost directory of the chain
ChainEnd(s) == CHOOSE k \in DOMAIN s : \A x \in DOMAIN s : Len(x) <= Len(k)

InitDeep ==
    /\ pc = "open"
    /\ diskKind = "package"
    /\ structure = "package"
    /\ root = NoRoot
    /\ fsKind = "OSFS"
    /\ store = (P :> DirNode)
    /\ prev = (P :> DirNode)
    /\ clock = 0
    /\ last = NoCall
    /\ other = NoOther

MakeDirectoryDeep ==
    /\ Ready
    /\ ChainLength(store) < maxDepth + ChainSlack
    /\ LET path == joinPath(ChainEnd(store), D) IN
       Effect("makeDirectory", path, NoArg, NoArg, None, FALSE,
              makeDirectory(store, clock, path))

ListDirectoryDeep ==
    /\ Ready
    /\ \E recurse \in BOOLEAN :
        Effect("listDirectory", P, NoArg, NoArg, None, recurse,
               listDirectory(store, clock, P, recurse))

NextDeep ==
    \/ MakeDirectoryDeep
    \/ ListDirectoryDeep
    \/ Return

SpecDeep == InitDeep /\ [][NextDeep]_vars

\* ------------------------------------------------------------------------
\* Two handles: an archive and a package that start with the same content,
\* given the same calls one after the other
\* ------------------------------------------------------------------------

\* what is at the two paths before the handles are made, and the structure
\* asked for: nothing (two new bundles), or the same tree in both, in the
\* archive under its single top-level entry r
TwinStarts == {
    [requested |-> TRUE,  kind |-> "absent", zip |-> EmptyStore, package |-> EmptyStore],
    [requested |-> FALSE, kind |-> "there",  zip |-> Rooted(EmptyStore, R), package |-> EmptyStore],
    [requested |-> FALSE, kind |-> "there",  zip |-> Rooted(Tree1, R), package |-> Tree1],
    [requested |-> FALSE, kind |-> "there",  zip |-> Rooted(Tree2, R), package |-> Tree2] }

\* FileSystem(path, "w", structure) for the archive of start t
TwinArchive(t) ==
    FileSystemInit("w", (IF t.requested THEN "zip" ELSE None),
                   (IF t.kind = "absent" THEN "absent" ELSE "zip"), t.zip)

\* FileSystem(path, "w", structure) for the package of start t
TwinPackage(t) ==
    FileSystemInit("w", (IF t.requested THEN "package" ELSE None),
                   (IF t.kind = "absent" THEN "absent" ELSE "package"), t.package)

\* the archive handle a in use, the package handle b set aside
TwinBuilt(a, b) ==
    /\ pc = "open"
    /\ diskKind = a.diskKind
    /\ structure = a.structure
    /\ root = a.root
    /\ fsKind = a.fsKind
    /\ store = a.store
    /\ prev = a.store
    /\ clock = 0
    /\ last = NoCall
    /\ other = Handle(b.root, b.fsKind, b.structure, b.store, 0, NoCall)

InitTwin == \E t \in TwinStarts : TwinBuilt(TwinArchive(t), TwinPackage(t))

\* the handle set aside comes into use with latest call l, and the one in
\* use is set aside with latest call m
Swapped(l, m) ==
    /\ other' = Handle(root, fsKind, structure, store, clock, m)
    /\ root' = other.root
    /\ fsKind' = other.fsKind
    /\ structure' = other.structure
    /\ store' = other.store
    /\ prev' = other.store
    /\ clock' = other.clock
    /\ last' = l
    /\ UNCHANGED << pc, diskKind >>

\* the archive handle has completed a call: the package handle is next
Switch ==
    /\ pc = "open"
    /\ fsKind = "ZipFS"
    /\ last.op # "none"
    /\ other.last.op = "none"
    /\ Swapped(NoCall, last)

\* the outcome of the facade call with the name and arguments of call
Repeated(s, c, call) ==
    CASE call.op = "exists" -> Ok(s, c, BoolV(exists(s, call.path)))
      [] call.op = "isDirectory" -> Ok(s, c, BoolV(isDirectory(s, call.path)))
      [] call.op = "listDirectory" -> listDirectory(s, c, call.path, call.flag)
      [] call.op = "open" -> open(s, c, call.path, call.mode, call.flag)
      [] call.op = "getFileModificationTime" -> getFileModificationTime(s, c, call.path)
      [] call.op = "readBytesFromPath" -> readBytesFromPath(s, c, call.path)
      [] call.op = "writeBytesToPath" -> writeBytesToPath(s, c, call.path, call.data)
      [] call.op = "remove" -> remove(s, c, call.path)
      [] call.op = "move" -> move(s, c, call.path, call.path2)
      [] call.op = "readPlist" -> readPlist(s, c, call.path, call.value)
      [] call.op = "writePlist" -> writePlist(s, c, call.path, call.value)

\* the effect of the call repeated with outcome o
RepeatEffect(call, o) ==
    /\ o.clock <= MaxClock
    /\ store' = o.store
    /\ clock' = o.clock
    /\ prev' = store
    /\ last' = [call EXCEPT !.ret = o.ret, !.err = o.err]
    /\ UNCHANGED << pc, diskKind, structure, root, fsKind, other >>

\* the package handle is given the call the archive handle has completed
Repeat ==
    /\ pc = "open"
    /\ fsKind = "OSFS"
    /\ last.op = "none"
    /\ other.last.op # "none"
    /\ RepeatEffect(other.last, Repeated(store, clock, other.last))

\* the client has both results: the archive handle is next
ReturnBoth ==
    /\ pc = "open"
    /\ fsKind = "OSFS"
    /\ last.op # "none"
    /\ other.last.op # "none"
    /\ Swapped(NoCall, NoCall)

NextTwin ==
    \/ Exists
    \/ IsDirectory
    \/ ListDirectory
    \/ Open
    \/ GetFileModificationTime
    \/ ReadBytesFromPath
    \/ WriteBytesToPath
    \/ Remove
    \/ Move
    \/ ReadPlist
    \/ WritePlist
    \/ Switch
    \/ Repeat
    \/ ReturnBoth

SpecTwin == InitTwin /\ [][NextTwin]_vars

\* ------------------------------------------------------------------------
\* Properties
\* ------------------------------------------------------------------------

\* the latest call is op, on a handle with a backend
Did(op) == pc = "open" /\ last.op = op

\* C1 as claimed: for every path p that is not a directory and every byte
\* sequence d, the empty one included, writeBytesToPath(p, d) followed by
\* readBytesFromPath(p) returns exactly d.
C1_RoundTripAnyBytes ==
    (Did("writeBytesToPath") /\ ~isDirectory(prev, last.path))
        => /\ readBytesFromPath(store, clock, last.path).err = "ok"
           /\ readBytesFromPath(store, clock, last.path).ret = BytesV(last.data)

\* C1 as amended: for every path p that is not a directory and every
\* non-empty byte sequence d, a writeBytesToPath(p, d) that returns followed
\* by readBytesFromPath(p) returns exactly d; with empty d nothing is
\* written, and the read returns what p held before (None when p is absent).
C1_RoundTrip ==
    (Did("writeBytesToPath") /\ last.err = "ok" /\ ~isDirectory(prev, last.path))
        => IF last.data # <<>>
           THEN /\ readBytesFromPath(store, clock, last.path).err = "ok"
                /\ readBytesFromPath(store, clock, last.path).ret = BytesV(last.data)
           ELSE readBytesFromPath(store, clock, last.path)
                    = readBytesFromPath(prev, clock, last.path)

C1_Witness ==
    /\ Did("writeBytesToPath")
    /\ last.err = "ok"
    /\ last.data # <<>>
    /\ BackendIsFile(prev, NativeKey(last.path))
    /\ prev[NativeKey(last.path)].data # last.data
    /\ readBytesFromPath(store, clock, last.path).ret = BytesV(last.data)

\* C2: when the file at p already holds exactly the bytes d,
\* writeBytesToPath(p, d) returns without opening p for writing: the file's
\* modification time and bytes, and every other entry of the store, are as
\* before.
C2_SameBytesNoWrite ==
    ( /\ Did("writeBytesToPath")
      /\ BackendIsFile(prev, NativeKey(last.path))
      /\ prev[NativeKey(last.path)].data = last.data )
        => /\ last.err = "ok"
           /\ store = prev
           /\ store[NativeKey(last.path)].mtime = prev[NativeKey(last.path)].mtime

C2_Witness ==
    /\ Did("writeBytesToPath")
    /\ BackendIsFile(prev, NativeKey(last.path))
    /\ last.data # <<>>
    /\ prev[NativeKey(last.path)].data = last.data
    /\ store = prev

\* C3: writeBytesToPath(p, b"") on a path p that does not exist leaves p
\* non-existent and creates nothing, no ancestor directory of p either.
C3_EmptyWriteCreatesNothing ==
    (Did("writeBytesToPath") /\ last.data = <<>> /\ ~exists(prev, last.path))
        => /\ last.err = "ok"
           /\ ~exists(store, last.path)
           /\ DOMAIN store = DOMAIN prev
           /\ store = prev

C3_Witness ==
    /\ Did("writeBytesToPath")
    /\ last.data = <<>>
    /\ ~exists(prev, last.path)
    /\ ~exists(prev, directoryName(last.path))
    /\ ~exists(store, last.path)

\* the native keys of the directories above logical path p, below the
\* bundle root
LogicalAncestors(path) ==
    { NativeKey(SubSeq(path, 1, i - 1)) : i \in { j \in 1..Len(path) : path[j] = SLASH } }

\* directory a of s holds nothing but the chain of directories down to key
\* k and what lies under k
OnlyHolds(s, a, k) ==
    \A x \in DOMAIN s : (Under(x, a) /\ x # a) => (Under(x, k) \/ Under(k, x))

\* what remove(p) takes out of s: p with its subtree, and every directory
\* above p that is thereby left empty
Removed(s, path) ==
    { x \in DOMAIN s : Under(x, NativeKey(path)) }
        \cup { a \in LogicalAncestors(path) : a \in DOMAIN s /\ OnlyHolds(s, a, NativeKey(path)) }

\* C4: after remove(p) on an existing path p, p and its subtree are gone,
\* every directory above p that has become empty is gone, and the first
\* non-empty ancestor, the bundle root, an archive's root-name directory and
\* every other entry are as before.
C4_RemovePrunes ==
    (Did("remove") /\ exists(prev, last.path))
        => /\ last.err = "ok"
           /\ ~exists(store, last.path)
           /\ DOMAIN store = DOMAIN prev \ Removed(prev, last.path)
           /\ \A x \in DOMAIN store : store[x] = prev[x]
           /\ \A a \in LogicalAncestors(last.path) :
                a \in DOMAIN store => ChildKeys(store, a) # {}
           /\ (root.k # "None" /\ root.v \in DOMAIN prev) => root.v \in DOMAIN store

\* a file three levels down is removed, and the two directories above it go
C4_Witness ==
    /\ Did("remove")
    /\ last.path = PBC
    /\ NativeKey(PBC) \in DOMAIN prev
    /\ NativeKey(PB) \notin DOMAIN store
    /\ NativeKey(P) \notin DOMAIN store

\* the pruning stops at a directory that still holds something
C4_WitnessStop ==
    /\ Did("remove")
    /\ last.path = PBC
    /\ NativeKey(PBC) \in DOMAIN prev
    /\ NativeKey(PB) \notin DOMAIN store
    /\ NativeKey(P) \in DOMAIN store

\* store s with the subtree at key a carried over to key b, the rest as it is
IsMoved(s, a, b, s2) ==
    /\ \A x \in DOMAIN s2 : ~Under(x, a)
    /\ \A x \in DOMAIN s :
         IF Under(x, a)
         THEN /\ b \o SubSeq(x, Len(a) + 1, Len(x)) \in DOMAIN s2
              /\ s2[b \o SubSeq(x, Len(a) + 1, Len(x))] = s[x]
         ELSE x \in DOMAIN s2 /\ s2[x] = s[x]
    /\ Cardinality(DOMAIN s2) = Cardinality(DOMAIN s)

\* C5 as claimed: move(a, b) raises not-found when a is absent, else
\* already-exists when b is present, the store unchanged in both cases;
\* otherwise a is absent afterwards and b holds what a held.
C5_MoveAlwaysMoves ==
    Did("move")
        => IF ~exists(prev, last.path)
           THEN last.err = "DoesNotExist" /\ store = prev
           ELSE IF exists(prev, last.path2)
           THEN last.err = "AlreadyExists" /\ store = prev
           ELSE /\ last.err = "ok"
                /\ IsMoved(prev, NativeKey(last.path), NativeKey(last.path2), store)

\* the backend can move a to b: b's parent is an existing directory and b
\* is not inside a
Movable(s, a, b) == ParentsAreDirs(s, b) /\ ~Under(b, a)

\* C5 as amended: move(a, b) raises not-found when a is absent, else
\* already-exists when b is present, the store unchanged in both cases;
\* otherwise, when b's parent directory exists and b does not lie inside a,
\* a is absent afterwards and b holds what a held (its bytes, or its whole
\* subtree), and when not, the backend's own error is raised and the store
\* is unchanged.
C5_Move ==
    Did("move")
        => IF ~exists(prev, last.path)
           THEN last.err = "DoesNotExist" /\ store = prev
           ELSE IF exists(prev, last.path2)
           THEN last.err = "AlreadyExists" /\ store = prev
           ELSE IF Movable(prev, NativeKey(last.path), NativeKey(last.path2))
           THEN /\ last.err = "ok"
                /\ IsMoved(prev, NativeKey(last.path), NativeKey(last.path2), store)
           ELSE last.err = "Backend" /\ store = prev

\* a directory holding a subtree is moved
C5_Witness ==
    /\ Did("move")
    /\ last.err = "ok"
    /\ isDirectory(prev, last.path)
    /\ ChildKeys(prev, NativeKey(last.path)) # {}
    /\ ~exists(store, last.path)
    /\ isDirectory(store, last.path2)

\* the files of s under logical directory path, relative to it
FilesUnder(s, path) ==
    { SliceFrom(x, Len(NativeKey(path)) + (IF NativeKey(path) = <<>> THEN 0 ELSE 1)) :
        x \in { y \in DOMAIN s : s[y].kind = "file" /\ Under(y, NativeKey(path))
                                  /\ y # NativeKey(path) } }

\* the elements of a sequence
Range(q) == { q[i] : i \in 1..Len(q) }

\* C6 as claimed: listDirectory(p, recurse=True) on a directory p returns
\* exactly the files in the subtree under p, each once and relative to p,
\* and no directory that was descended into.
C6_RecursiveListing ==
    (Did("listDirectory") /\ last.flag /\ isDirectory(prev, last.path))
        => /\ last.err = "ok"
           /\ Range(last.ret.l) = FilesUnder(prev, last.path)
           /\ Len(last.ret.l) = Cardinality(FilesUnder(prev, last.path))

\* C7: a recursive listing of p over a chain of n directories below p
\* succeeds when n <= 100 and fails with the recursion-limit error when
\* n > 100 (so 100 levels succeed and 101 fail): the depth is 0 at the listed
\* path and one more at each directory descended.
C7_DepthLimit ==
    (last.op = "listDirectory" /\ last.flag)
        => /\ ChainLength(store) <= maxDepth => last.err = "ok" /\ last.ret = ListV(<<>>)
           /\ ChainLength(store) > maxDepth => last.err = "RecursionLimit"

C7_Witness ==
    /\ last.op = "listDirectory"
    /\ last.flag
    /\ ChainLength(store) = maxDepth + 1
    /\ last.err = "RecursionLimit"

C7_Witness100 ==
    /\ last.op = "listDirectory"
    /\ last.flag
    /\ ChainLength(store) = maxDepth
    /\ last.err = "ok"

\* the names of the top-level entries of an archive
TopNames(s) == { BaseName(x) : x \in ChildKeys(s, <<>>) }

\* C8: a handle on an archive without entries has the root name "contents",
\* one on an archive with exactly one top-level entry has that entry's name,
\* construction on an archive with two or more fails with the
\* multiple-roots error, and a handle on a directory has no root name.
C8_RootName ==
    /\ (last.op = "init" /\ structure = "zip" /\ last.err \in {"ok", "MultipleRoots"})
        => IF Cardinality(TopNames(prev)) = 0
           THEN pc = "open" /\ root = RootName(Contents)
           ELSE IF Cardinality(TopNames(prev)) = 1
           THEN pc = "open" /\ root.k = "str" /\ TopNames(prev) = {root.v}
           ELSE pc = "failed" /\ last.err = "MultipleRoots"
    /\ (pc = "open" /\ structure = "package") => root = NoRoot

C8_Witness ==
    /\ last.op = "init"
    /\ pc = "open"
    /\ structure = "zip"
    /\ root = RootName(R)

C8_WitnessMultiple ==
    /\ last.op = "init"
    /\ pc = "failed"
    /\ Cardinality(TopNames(prev)) = 2
    /\ last.err = "MultipleRoots"

\* C9: open(p, mode) in a read mode, with or without an encoding, on a path
\* p that does not exist returns None, raises nothing and leaves the store
\* as it was.
C9_OpenReadAbsent ==
    (Did("open") /\ last.mode \in ReadModes /\ ~exists(prev, last.path))
        => /\ last.err = "ok"
           /\ last.ret = NoneV
           /\ store = prev

C9_Witness ==
    /\ Did("open")
    /\ last.mode = "r"
    /\ last.flag
    /\ ~exists(prev, last.path)
    /\ last.ret = NoneV

\* C10: open(p, mode) on a path p that is a directory raises the
\* is-a-directory error in read and in write modes before anything is
\* created, and so do readBytesFromPath(p) and writeBytesToPath(p, d); the
\* store is unchanged.
C10_DirectoryRefused ==
    ( /\ pc = "open"
      /\ last.op \in {"open", "readBytesFromPath", "writeBytesToPath"}
      /\ exists(prev, last.path)
      /\ isDirectory(prev, last.path) )
        => /\ last.err = "IsDirectory"
           /\ store = prev

C10_Witness ==
    /\ Did("open")
    /\ last.mode \in WriteModes
    /\ isDirectory(prev, last.path)
    /\ last.err = "IsDirectory"
    /\ store = prev

C10_WitnessWrite ==
    /\ Did("writeBytesToPath")
    /\ isDirectory(prev, last.path)
    /\ last.err = "IsDirectory"

\* C11: open(p, mode) in a write mode succeeds whenever p is not a directory
\* and no ancestor of p is a file, and after it every proper ancestor
\* directory of p is an existing directory; only the missing ancestors and p
\* itself are new, every entry that was there is as before, and the same
\* call again creates no further directories.
C11_AncestorsBuilt ==
    (Did("open") /\ last.mode \in WriteModes)
        => /\ (~isDirectory(prev, last.path) /\ NoFileAbove(prev, NativeKey(last.path)))
                => last.err = "ok"
           /\ last.err = "ok" =>
                /\ \A a \in LogicalAncestors(last.path) :
                     a \in DOMAIN store /\ store[a].kind = "dir"
                /\ DOMAIN store = DOMAIN prev \cup AncestorKeys(NativeKey(last.path))
                                              \cup {NativeKey(last.path)}
                /\ \A x \in DOMAIN prev \ {NativeKey(last.path)} : store[x] = prev[x]
                /\ store[NativeKey(last.path)].kind = "file"
                /\ DOMAIN open(store, clock, last.path, last.mode, last.flag).store
                       = DOMAIN store

\* a file is opened for writing two levels below directories that are missing
C11_Witness ==
    /\ Did("open")
    /\ last.mode \in WriteModes
    /\ last.err = "ok"
    /\ last.path = PBC
    /\ NativeKey(P) \notin DOMAIN prev
    /\ store[NativeKey(PB)].kind = "dir"
    /\ store[NativeKey(P)].kind = "dir"

\* an ancestor that was there, with what it holds, stays as it was
C11_WitnessKept ==
    /\ Did("open")
    /\ last.mode \in WriteModes
    /\ last.err = "ok"
    /\ last.path = PBC
    /\ NativeKey(PA) \in DOMAIN prev
    /\ NativeKey(PB) \notin DOMAIN prev
    /\ store[NativeKey(PA)] = prev[NativeKey(PA)]

\* C13: construction in write mode on a path that holds a package or an
\* archive, with a requested structure that is not the one found there,
\* fails with the different-structure error with no backend opened and the
\* disk as it was; with the same structure requested, or none, the handle
\* has the structure found on disk and the backend that goes with it.
C13_StructureMismatch ==
    (last.op = "init" /\ last.mode = "w" /\ diskKind \in {"package", "zip"})
        => IF last.ret.s # None /\ last.ret.s # sniffFileStructure(diskKind)
           THEN /\ pc = "failed"
                /\ last.err = "DifferentStructure"
                /\ fsKind = None
                /\ root = NoRoot
                /\ store = prev
           ELSE /\ structure = sniffFileStructure(diskKind)
                /\ last.err \in {"ok", "MultipleRoots"}
                /\ last.err = "ok" =>
                     /\ pc = "open"
                     /\ fsKind = (IF diskKind = "package" THEN "OSFS" ELSE "ZipFS")

\* an archive is asked for where a package with files is
C13_Witness ==
    /\ last.op = "init"
    /\ last.mode = "w"
    /\ diskKind = "package"
    /\ last.ret.s = "zip"
    /\ NativeKey(PA) \in DOMAIN store
    /\ last.err = "DifferentStructure"
    /\ pc = "failed"

\* no structure is asked for where an archive is
C13_WitnessSniffed ==
    /\ last.op = "init"
    /\ last.mode = "w"
    /\ diskKind = "zip"
    /\ last.ret.s = None
    /\ pc = "open"
    /\ structure = "zip"

\* C14: readPlist(p, default) on a path that is not there returns the
\* default when one is given and fails with the missing-required-file error
\* when none is; on a path that is there it returns the decoded value, and a
\* directory at p or bytes the decoder refuses give the one could-not-be-read
\* error; the store is as before in each case.
C14_ReadPlist ==
    Did("readPlist")
        => /\ store = prev
           /\ ~exists(prev, last.path) =>
                IF last.value # None
                THEN last.err = "ok" /\ last.ret = ValueV(last.value)
                ELSE last.err = "MissingRequiredFile"
           /\ exists(prev, last.path) =>
                IF /\ BackendIsFile(prev, NativeKey(last.path))
                   /\ plistlib_readPlist(prev[NativeKey(last.path)].data) # None
                THEN /\ last.err = "ok"
                     /\ last.ret = ValueV(plistlib_readPlist(prev[NativeKey(last.path)].data))
                ELSE last.err = "CouldNotBeRead"

\* a directory is read as a property list
C14_Witness ==
    /\ Did("readPlist")
    /\ isDirectory(prev, last.path)
    /\ last.err = "CouldNotBeRead"

\* a file the decoder refuses is read, with a default given
C14_WitnessCorrupt ==
    /\ Did("readPlist")
    /\ last.path = Q
    /\ last.value = "v1"
    /\ BackendIsFile(prev, NativeKey(Q))
    /\ last.err = "CouldNotBeRead"

\* a missing file is read with a default, and without one
C14_WitnessDefault ==
    /\ Did("readPlist")
    /\ ~exists(prev, last.path)
    /\ last.value = "v1"
    /\ last.ret = ValueV("v1")

C14_WitnessMissing ==
    /\ Did("readPlist")
    /\ ~exists(prev, last.path)
    /\ last.err = "MissingRequiredFile"

\* C15: writePlist(p, value) with a value the encoder refuses fails with the
\* not-properly-formatted error and leaves the store, the file at p
\* included, as it was; with a value that encodes, the
\* outcome is that of writeBytesToPath(p, bytes) for the encoded bytes.
C15_WritePlist ==
    Did("writePlist")
        => IF plistlib_writePlist(last.value) = None
           THEN /\ last.err = "NotProperlyFormatted"
                /\ store = prev
           ELSE \E c \in 0..MaxClock :
                    /\ writeBytesToPath(prev, c, last.path,
                                        plistlib_writePlist(last.value)).store = store
                    /\ writeBytesToPath(prev, c, last.path,
                                        plistlib_writePlist(last.value)).clock = clock
                    /\ writeBytesToPath(prev, c, last.path,
                                        plistlib_writePlist(last.value)).err = last.err

\* a value that does not encode is written over a file
C15_Witness ==
    /\ Did("writePlist")
    /\ last.value = "unencodable"
    /\ BackendIsFile(prev, NativeKey(last.path))
    /\ prev[NativeKey(last.path)].data # <<>>
    /\ last.err = "NotProperlyFormatted"

\* a value is written where its encoding already is, and where it is not
C15_WitnessSame ==
    /\ Did("writePlist")
    /\ last.value = "v1"
    /\ last.path = PA
    /\ BackendIsFile(prev, NativeKey(PA))
    /\ prev[NativeKey(PA)].data = <<1>>
    /\ last.err = "ok"
    /\ store = prev

C15_WitnessNew ==
    /\ Did("writePlist")
    /\ last.value = "v2"
    /\ ~exists(prev, last.path)
    /\ last.err = "ok"
    /\ store[NativeKey(last.path)].data = <<2>>

\* readBytesFromPath(p) in store s: what it returns, or the error it raises
ReadOf(o) == [ret |-> o.ret, err |-> o.err]

Reads(s, p) == ReadOf(readBytesFromPath(s, 0, p))

\* p reads after the latest call as it did before it, as it must where the
\* call left the whole store as it was
ReadsAsBefore(p) ==
    \/ store = prev
    \/ Reads(store, p) = Reads(prev, p) /\ exists(store, p) = exists(prev, p)

\* p reads as absent
ReadsNone(s, p) == Reads(s, p) = [ret |-> NoneV, err |-> "ok"] /\ ~exists(s, p)

\* p reads as the bytes d
ReadsBytes(s, p, d) == Reads(s, p) = [ret |-> BytesV(d), err |-> "ok"] /\ exists(s, p)

\* logical paths p and q lie on one branch: one is the other or above it
Branch(k, j) == Under(k, j) \/ Under(j, k)

OnOneBranch(p, q) == Branch(NativeKey(p), NativeKey(q))

\* the latest call, where it has changed the store, has left every path off
\* the branches of its arguments as it read before
C16_OthersKept(p) ==
    (/\ pc = "open"
     /\ last.op \notin {"none", "init"}
     /\ store # prev
     /\ ~OnOneBranch(p, last.path)
     /\ last.op = "move" => ~OnOneBranch(p, last.path2))
        => ReadsAsBefore(p)

\* the latest call is a query: the store is as before, and so is what
\* every path reads as
C16_QueriesKeep ==
    (/\ pc = "open"
     /\ \/ last.op \in {"exists", "isDirectory", "listDirectory", "getFileModificationTime",
                        "readBytesFromPath", "readPlist"}
        \/ last.op = "open" /\ EffectiveMode(last.mode, last.flag) \in ReadModes)
        => store = prev

\* a remove of p or of a directory above it that returned: p reads as absent
C16_RemoveRead(p) ==
    (Did("remove") /\ last.err = "ok" /\ Under(NativeKey(p), NativeKey(last.path)))
        => ReadsNone(store, p)

\* a move that returned: what lay at or under the source reads as absent,
\* and the target reads as the source did
C16_MoveRead(p) ==
    (Did("move") /\ last.err = "ok")
        => /\ Under(NativeKey(p), NativeKey(last.path)) => ReadsNone(store, p)
           /\ p = last.path2 =>
                /\ Reads(store, p) = Reads(prev, last.path)
                /\ exists(store, p)

\* C16 as claimed: on one handle, after each call that has completed,
\* readBytesFromPath(p) and exists(p) are those of the latest call that
\* touched p: the bytes d of a writeBytesToPath(p, d) that returned, d empty
\* or not, or what a move put on p, and None after a remove or move of p or
\* of a directory above it; calls that do not touch p leave both as they were.
C16_LatestWriteRead ==
    /\ C16_QueriesKeep
    /\ \A p \in Paths :
        /\ (Did("writeBytesToPath") /\ last.path = p /\ last.err = "ok")
                => ReadsBytes(store, p, last.data)
        /\ C16_RemoveRead(p)
        /\ C16_MoveRead(p)
        /\ C16_OthersKept(p)

\* C16 as amended: on one handle, after each call that has completed,
\* readBytesFromPath(p) and exists(p) are those of the latest call that
\* touched p: the bytes d of a writeBytesToPath(p, d) with d not empty that
\* returned, the encoded bytes of a writePlist(p, v) that returned, no bytes
\* after an open(p) in a write mode that returned, what a move put on p, and
\* None after a remove or move of p or of a directory above it; a
\* writeBytesToPath(p, d) with d empty, and every call that does not touch
\* p, leave both as they were.
C16_ProgramOrder ==
    /\ C16_QueriesKeep
    /\ \A p \in Paths :
        /\ (Did("writeBytesToPath") /\ last.path = p /\ last.err = "ok")
                => IF last.data # <<>>
                   THEN ReadsBytes(store, p, last.data)
                   ELSE ReadsAsBefore(p)
        /\ (Did("writePlist") /\ last.path = p /\ last.err = "ok")
                => ReadsBytes(store, p, plistlib_writePlist(last.value))
        /\ (/\ Did("open") /\ last.path = p /\ last.err = "ok"
            /\ EffectiveMode(last.mode, last.flag) \in WriteModes)
                => ReadsBytes(store, p, <<>>)
        /\ C16_RemoveRead(p)
        /\ C16_MoveRead(p)
        /\ C16_OthersKept(p)

\* bytes are written over other bytes
C16_Witness ==
    /\ Did("writeBytesToPath")
    /\ last.path = PA
    /\ last.err = "ok"
    /\ last.data = <<2>>
    /\ ReadsBytes(prev, PA, <<1>>)
    /\ ReadsBytes(store, PA, <<2>>)

\* a directory above a file is removed
C16_WitnessRemoved ==
    /\ Did("remove")
    /\ last.path = P
    /\ last.err = "ok"
    /\ ReadsBytes(prev, PBC, <<2>>)
    /\ ReadsNone(store, PBC)

\* a file is moved
C16_WitnessMoved ==
    /\ Did("move")
    /\ last.path = PA
    /\ last.path2 = Q
    /\ last.err = "ok"
    /\ ReadsBytes(store, Q, <<1>>)
    /\ ReadsNone(store, PA)

\* the empty sequence is written to a file that holds bytes
C16_WitnessEmpty ==
    /\ Did("writeBytesToPath")
    /\ last.path = PA
    /\ last.err = "ok"
    /\ last.data = <<>>
    /\ ReadsBytes(store, PA, <<1>>)

\* the names of the entries directly in logical directory path of s
ChildNames(s, path) == { BaseName(k) : k \in ChildKeys(s, NativeKey(path)) }

\* C17 as claimed: listDirectory(p) without recursion on a directory p, the
\* bundle root given as the empty path and a path with a trailing slash
\* included, returns exactly the names of the entries directly in p, each
\* once and whole.
C17_NonRecursiveListing ==
    (Did("listDirectory") /\ ~last.flag /\ isDirectory(prev, last.path))
        => /\ last.err = "ok"
           /\ Range(last.ret.l) = ChildNames(prev, last.path)
           /\ Len(last.ret.l) = Cardinality(ChildNames(prev, last.path))

\* C18 as claimed: every construction from a path string that returns
\* without error leaves a handle whose backend is the directory backend or
\* the archive backend, for each mode, requested structure and state of the
\* path, and the backend stays the one selected.
C18_BackendSelected ==
    pc = "open" => /\ fsKind \in {"OSFS", "ZipFS"}
                   /\ fsKind = (IF structure = "package" THEN "OSFS" ELSE "ZipFS")

\* C19: writeBytesToPath(p, d) with d empty leaves the store as it was,
\* whatever p is: a file that holds bytes keeps them and its modification
\* time, and is neither cut to nothing nor removed.
C19_EmptyWriteKeeps ==
    (Did("writeBytesToPath") /\ last.data = <<>>)
        => /\ store = prev
           /\ last.err \in {"ok", "IsDirectory"}
           /\ last.err = "IsDirectory" <=> isDirectory(prev, last.path)

\* the empty sequence is written to a file that holds bytes
C19_Witness ==
    /\ Did("writeBytesToPath")
    /\ last.data = <<>>
    /\ last.err = "ok"
    /\ BackendIsFile(prev, NativeKey(last.path))
    /\ prev[NativeKey(last.path)].data # <<>>
    /\ store[NativeKey(last.path)] = prev[NativeKey(last.path)]

\* the empty sequence is written where nothing is
C19_WitnessAbsent ==
    /\ Did("writeBytesToPath")
    /\ last.data = <<>>
    /\ last.err = "ok"
    /\ ~exists(prev, last.path)
    /\ ~exists(store, last.path)

\* the directories of s below the bundle root that hold nothing
EmptyDirectories(s) ==
    { k \in DOMAIN s : /\ s[k].kind = "dir"
                       /\ ChildKeys(s, k) = {}
                       /\ k # NativeKey(<<>>) }

\* C20: a writeBytesToPath with data that is not empty, or a remove, that
\* runs to completion on a store with no empty directory below the bundle
\* root leaves a store with no empty directory below the bundle root; so
\* no sequence of such calls from such a store reaches one.
C20_NoEmptyDirectories ==
    (/\ \/ Did("writeBytesToPath") /\ last.data # <<>>
        \/ Did("remove")
     /\ last.err = "ok"
     /\ EmptyDirectories(prev) = {})
        => EmptyDirectories(store) = {}

\* the only file of a directory two levels down is removed, and the
\* directory goes
C20_Witness ==
    /\ Did("remove")
    /\ last.path = PBC
    /\ last.err = "ok"
    /\ EmptyDirectories(prev) = {}
    /\ BackendIsFile(prev, NativeKey(PBC))
    /\ ~exists(store, PB)
    /\ EmptyDirectories(store) = {}

\* a file is written where its two directories are missing
C20_WitnessWritten ==
    /\ Did("writeBytesToPath")
    /\ last.path = PBC
    /\ last.data # <<>>
    /\ last.err = "ok"
    /\ EmptyDirectories(prev) = {}
    /\ ~exists(prev, P)
    /\ isDirectory(store, PB)

\* both handles have completed the same call
BothDid == pc = "open" /\ fsKind = "OSFS" /\ last.op # "none" /\ other.last.op = last.op

\* C12 as claimed: an archive handle with root name r and a package handle,
\* given the same calls with the same logical paths, raise the same errors
\* and return the same results from exists, isDirectory, listDirectory and
\* readBytesFromPath.
C12_SameResults ==
    BothDid
        => /\ last.err = other.last.err
           /\ last.op \in {"exists", "isDirectory", "listDirectory", "readBytesFromPath"}
                => last.ret = other.last.ret

\* the bundle root of two new bundles is listed through both handles: the
\* archive handle raises, the package handle returns the empty list
C12_Witness ==
    /\ BothDid
    /\ last.op = "listDirectory"
    /\ last.path = <<>>
    /\ other.root = RootName(Contents)
    /\ other.store = EmptyStore
    /\ other.last.err = "Backend"
    /\ last.err = "ok"
    /\ last.ret = ListV(<<>>)

\* C12 where the archive's root-name directory is there: the two handles
\* raise the same errors and return the same results, and the archive holds
\* under r exactly what the package holds.
C12_SameResultsUnderRoot ==
    (BothDid /\ other.root.v \in DOMAIN other.store)
        => /\ C12_SameResults
           /\ other.store = Rooted(store, other.root.v)

====
